---- MODULE Spec2Model ----
(***************************************************************************)
(* LayerForgeNode (canvas_node.py): the node-keyed store shared by the     *)
(* computation step and the WebSocket push channel, the shared result      *)
(* cache with its persistent copy and execution id, and the non-blocking   *)
(* processing guard around process_canvas_image.                           *)
(*                                                                         *)
(* Python values are modelled as strings and records: None is the string   *)
(* "None"; a dict is a record with a kind field; a threading.Lock is its   *)
(* locked flag (the processing lock) or its holder (the storage lock).     *)
(* Time is the wall clock in milliseconds.                                 *)
(***************************************************************************)
EXTENDS Integers, Sequences, FiniteSets, TLC

(* ------------------------------ bounds -------------------------------- *)
MaxCalls == 3
MaxPush == 2
MaxTicks == 1
\* Pushes in the runs that follow three threads through the guard.
MaxGuardPush == 1
\* Invocations and pushes in the runs that poll and clear the input store.
MaxInputCalls == 2
MaxInputPush == 1

(* --------------------------- program constants ------------------------ *)
cleanup_threshold == 300

(* ------------------------------ values -------------------------------- *)
None == "None"

\* Threads of the host that run the node; each owns one LayerForgeNode. The
\* names are given in the order in which the instances are constructed.
ThreadOrder == <<"t1", "t2", "t3">>
Threads == {ThreadOrder[i] : i \in 1..Len(ThreadOrder)}
\* WebSocket connections, each served by handle_canvas_websocket on the one
\* event loop of the server; a run names the connections that send (world).
Conns == {"c1", "c2"}
Free == "free"

\* node_id is a free STRING input of the node and of the push message.
NodeIds == {"7", "7_input"}

\* Clock advances (milliseconds): one millisecond, or just past the
\* staleness threshold.
ShortStep == 1
StaleStep == cleanup_threshold * 1000 + 1

\* <<input_image, input_mask>> handed to the node: absent, float tensors
\* that convert to PIL images, or a tensor Image.fromarray rejects.
Inputs == {<<None, None>>, <<"tensorA", "tensorM">>, <<"tensorBad", None>>}
FitOnAdd == {TRUE}

\* <<image, mask>> text of a push message: absent, a PNG data URI, or text
\* that is no data URI.
Pushes == {<<"data:image/png;base64,A", None>>,
           <<None, "data:image/png;base64,B">>,
           <<"garbage", "data:image/png;base64,B">>,
           <<"data:image/png;base64,A", "garbage">>}

\* torch.zeros((1, 512, 512, 3)) and torch.zeros((1, 512, 512)).
ZerosImage == "zeros(1,512,512,3)"
ZerosMask == "zeros(1,512,512)"

input_key(node_id) == node_id \o "_input"
Keys == NodeIds \cup {input_key(n) : n \in NodeIds}

Absent == [kind |-> "absent"]

(* ------------------------- pure helper functions ----------------------- *)

\* str(int(time.time() * 1000))
get_execution_id(t) == ToString(t)

\* Python truthiness of a value read with dict.get: None and "" are false.
Truthy(v) == v # None /\ v # ""

\* dict.get(key) on a popped storage entry: a pushed edit has the keys image
\* and mask, an input snapshot has neither.
GetImage(entry) == IF entry.kind = "edit" THEN entry.image ELSE None
GetMask(entry) == IF entry.kind = "edit" THEN entry.mask ELSE None

\* text.split(',')[1] -> base64.b64decode -> Image.open: defined on data URIs.
Decodable(text) == text \in {"data:image/png;base64,A", "data:image/png;base64,B"}

\* Image.open(...).convert('RGB') as a float tensor with a leading batch axis.
DecodeImage(text) ==
    IF text = "data:image/png;base64,A" THEN "rgb(A)" ELSE "rgb(B)"

\* Image.open(...).convert('L') as a float tensor with a leading batch axis.
DecodeMask(text) ==
    IF text = "data:image/png;base64,A" THEN "gray(A)" ELSE "gray(B)"

\* Image.fromarray(...) -> PNG -> base64 data URI of an input tensor.
Encodable(tensor) == tensor \in {"tensorA", "tensorM"}
EncodeInput(tensor) ==
    IF tensor = "tensorA" THEN "data:image/png;base64,TA"
    ELSE "data:image/png;base64,TM"

(* ------------------------------- state --------------------------------- *)
VARIABLES
    _processing_lock,       \* LayerForgeNode._processing_lock: TRUE when locked
    _storage_lock,          \* LayerForgeNode._storage_lock: its holder, or Free
    _canvas_data_storage,   \* LayerForgeNode._canvas_data_storage: key -> entry
    _canvas_cache,          \* LayerForgeNode._canvas_cache
    _websocket_data,        \* LayerForgeNode._websocket_data
    now,                    \* time.time() in milliseconds
    pc,                     \* per thread: position in __init__ / process_canvas_image
    args,                   \* per thread: node_id, input_image, input_mask, fit_on_add
    canvas_data,            \* per thread: the local canvas_data (result of the pop)
    result,                 \* per thread: what the invocation returns (or raises)
    ws,                     \* per connection: position in the handler, message, reply
    g_call,                 \* observer, per thread: acquired / popped / releases of the invocation
    g_push,                 \* observer, per node id: last completed push, whether no pop
                            \* followed it (unpopped), whether a pop returned it (taken)
    g_lastOutput,           \* observer: outputs of the last successful computation
    g_hist,                 \* observer: the last cache operations called directly
    ncalls, npush, nticks,  \* counters that bound the exploration
    world,                  \* the inputs and limits of the run, fixed by Init
    g_input,                \* observer, per node id: the input snapshot last stored
                            \* by an invocation for it
    _matting_lock,          \* module-level _matting_lock: None or TRUE
    matting,                \* per /matting request: position and response status
    http                    \* the last response of a get/clear/canvas-data route

\* The state of the routes beside the push channel.
routeVars == <<_matting_lock, matting, http>>

vars == <<_processing_lock, _storage_lock, _canvas_data_storage, _canvas_cache,
          _websocket_data, now, pc, args, canvas_data, result, ws, g_call,
          g_push, g_lastOutput, g_hist, ncalls, npush, nticks, world, g_input,
          routeVars>>

NoArgs == [node_id |-> None, input_image |-> None, input_mask |-> None,
           fit_on_add |-> FALSE]
NoResult == [kind |-> "none", image |-> None, mask |-> None]
Tuple(image, mask) == [kind |-> "tuple", image |-> image, mask |-> mask]
Raised(what) == [kind |-> what, image |-> None, mask |-> None]
NoMsg == [nodeId |-> None, image |-> None, mask |-> None]
NoReply == [status |-> "none", nodeId |-> None]
EmptyDict == [kind |-> "empty"]
NoResponse == [route |-> None]
\* Concurrent requests to the /matting route.
MattingRequests == {"m1", "m2", "m3"}

(* --------------------------- ExecutionCache ---------------------------- *)

\* dict.get on persistent_cache, which starts as the empty dict.
PersistentGet(persistent, key) ==
    IF persistent.kind = "dict"
    THEN (IF key = "image" THEN persistent.image ELSE persistent.mask)
    ELSE None

\* Fault-injected variants of restore_cache: one that clears only the image
\* in a new execution, one that clears the live fields in every call.
restore_cache_keeps_mask(cache, t) ==
    LET current_execution == get_execution_id(t)
    IN  IF current_execution # cache.last_execution_id
        THEN [cache EXCEPT !.image = None,
                           !.last_execution_id = current_execution]
        ELSE cache

restore_cache_always_resets(cache, t) ==
    [cache EXCEPT !.image = None, !.mask = None,
                  !.last_execution_id = get_execution_id(t)]

restore_cache(cache, t) ==
    LET persistent == cache.persistent_cache
        current_execution == get_execution_id(t)
    IN  IF current_execution # cache.last_execution_id
        THEN [cache EXCEPT !.image = None, !.mask = None,
                           !.last_execution_id = current_execution]
        ELSE [cache EXCEPT
                !.image = IF PersistentGet(persistent, "image") # None
                          THEN PersistentGet(persistent, "image") ELSE @,
                !.mask = IF PersistentGet(persistent, "mask") # None
                         THEN PersistentGet(persistent, "mask") ELSE @]

update_persistent_cache(cache) ==
    [cache EXCEPT !.persistent_cache =
        [kind |-> "dict", image |-> cache.image, mask |-> cache.mask]]

get_cached_data(cache) ==
    [kind |-> "dict", image |-> cache.image, mask |-> cache.mask]

\* __init__: a new instance restores the cache when persistent_cache is non-empty.
node_init(cache, t) ==
    IF cache.persistent_cache.kind = "dict" THEN restore_cache(cache, t) ELSE cache

\* self.flow_id = str(uuid.uuid4()) (line 97): one id per instance, and one
\* instance per thread.
flow_id(t) == t

\* Lines 138-148: the record stored under the instance's flow id. No method,
\* route or handler of the module calls track_data_flow.
track_data_flow(cache, fid, stage, status, t) ==
    [cache EXCEPT !.data_flow_status =
        (fid :> [timestamp |-> t, stage |-> stage, status |-> status]) @@ @]

\* Lines 373-377, with a flow id: dict.get on the flow-status table.
get_flow_status(cache, fid) ==
    IF fid \in DOMAIN cache.data_flow_status
    THEN cache.data_flow_status[fid]
    ELSE [timestamp |-> 0, stage |-> None, status |-> None]

(* ------------------------------- stores -------------------------------- *)

\* Lines 221-268: the input snapshot built from the call's arguments.
input_data(a) ==
    [kind |-> "input",
     input_image |-> IF a.input_image # None THEN EncodeInput(a.input_image) ELSE None,
     input_mask |-> IF a.input_mask # None THEN EncodeInput(a.input_mask) ELSE None,
     fit_on_add |-> a.fit_on_add]

\* Line 269: _canvas_data_storage[f"{node_id}_input"] = input_data
storage_put_input(storage, node_id, data) ==
    [storage EXCEPT ![input_key(node_id)] = data]

\* Line 276: _canvas_data_storage.pop(storage_key, None): the value returned
\* and the storage left behind.
storage_pop_value(storage, key) == storage[key]
\* Fault-injected variant of the pop: a read that leaves the entry in place.
storage_get_rest(storage, key) == storage
storage_pop_rest(storage, key) == [storage EXCEPT ![key] = Absent]

\* Variant of the push write that updates the stored edit field by field and
\* keeps the image or mask of the previous edit when the message has none.
storage_merge_edit(storage, msg, t) ==
    LET old == storage[msg.nodeId]
    IN  [storage EXCEPT ![msg.nodeId] =
            [kind |-> "edit",
             image |-> IF msg.image = None /\ old.kind = "edit"
                       THEN old.image ELSE msg.image,
             mask |-> IF msg.mask = None /\ old.kind = "edit"
                      THEN old.mask ELSE msg.mask,
             timestamp |-> t]]

\* Lines 427-431: the entry a push message leaves under its nodeId.
storage_put_edit(storage, msg, t) ==
    [storage EXCEPT ![msg.nodeId] =
        [kind |-> "edit", image |-> msg.image, mask |-> msg.mask, timestamp |-> t]]

\* A key of _websocket_data: a JSON number or a JSON string.
IntId(i) == [kind |-> "int", int |-> i]
StrId(s) == [kind |-> "str", str |-> s]

\* Lines 380-405: _websocket_data holds entries with node_id and timestamp
\* (seconds, kept here in milliseconds); the entries left after the sweep.
\* The loop of lines 387-395 visits every entry and evaluates node_id < 0
\* first; on a str key that comparison raises TypeError, which line 404
\* catches before the deletions of lines 397-398 have started.
cleanup_old_websocket_data(data, t) ==
    IF \E e \in data : e.node_id.kind = "str"
    THEN data
    ELSE {e \in data : ~(e.node_id.int < 0)
                       /\ ~(t - e.timestamp > cleanup_threshold * 1000)}

(* ------------------------------- decode -------------------------------- *)

\* Lines 278-295 raise when a truthy image or mask text does not decode.
decode_raises(cd) ==
    \/ (Truthy(GetImage(cd)) /\ ~Decodable(GetImage(cd)))
    \/ (Truthy(GetMask(cd)) /\ ~Decodable(GetMask(cd)))

\* Lines 280-287 and 300-302.
processed_image(cd) ==
    IF cd.kind # "absent" /\ Truthy(GetImage(cd))
    THEN DecodeImage(GetImage(cd)) ELSE ZerosImage

\* Lines 289-295 and 303-305.
processed_mask(cd) ==
    IF cd.kind # "absent" /\ Truthy(GetMask(cd))
    THEN DecodeMask(GetMask(cd)) ELSE ZerosMask

(* -------------------------------- Init --------------------------------- *)

EmptyCache ==
    [image |-> None, mask |-> None, data_flow_status |-> << >>,
     persistent_cache |-> EmptyDict, last_execution_id |-> None]

InitOther ==
    /\ _processing_lock = FALSE
    /\ _storage_lock = Free
    /\ _canvas_data_storage = [k \in Keys |-> Absent]
    /\ now = 0
    /\ pc = [t \in Threads |-> "new"]
    /\ args = [t \in Threads |-> NoArgs]
    /\ canvas_data = [t \in Threads |-> Absent]
    /\ result = [t \in Threads |-> NoResult]
    /\ ws = [c \in Conns |-> [pc |-> "idle", msg |-> NoMsg, reply |-> NoReply]]
    /\ g_call = [t \in Threads |-> [acquired |-> FALSE, popped |-> FALSE, releases |-> 0]]
    /\ g_push = [n \in NodeIds |-> [last |-> Absent, unpopped |-> FALSE, taken |-> FALSE]]
    /\ g_lastOutput = [image |-> None, mask |-> None]
    /\ g_hist = << >>
    /\ ncalls = 0
    /\ npush = 0
    /\ nticks = 0
    /\ g_input = [n \in NodeIds |-> Absent]
    /\ _matting_lock = None
    /\ matting = [r \in MattingRequests |-> [pc |-> "idle", status |-> None]]
    /\ http = NoResponse

\* Line 92: _websocket_data = {}.
InitRest ==
    /\ _websocket_data = {}
    /\ InitOther

\* Overlapping invocations: three threads on one node id, one push.
Init ==
    /\ _canvas_cache = EmptyCache
    /\ InitRest
    /\ world = [nthreads |-> 3, conns |-> {"c1"}, nodeIds |-> {"7"},
                inputs |-> {<<None, None>>, <<"tensorBad", None>>},
                pushes |-> {<<"data:image/png;base64,A", None>>,
                            <<"garbage", "data:image/png;base64,B">>},
                ticks |-> {StaleStep},
                maxcalls |-> MaxCalls, maxpush |-> MaxGuardPush, maxticks |-> MaxTicks]

\* The stores: two threads, pushes over one connection, node ids whose keys
\* collide.
StoreInit ==
    /\ _canvas_cache = EmptyCache
    /\ InitRest
    /\ world = [nthreads |-> 2, conns |-> {"c1"}, nodeIds |-> NodeIds,
                inputs |-> {<<"tensorA", "tensorM">>},
                pushes |-> {<<"data:image/png;base64,A", None>>,
                            <<None, "data:image/png;base64,B">>},
                ticks |-> {StaleStep},
                maxcalls |-> MaxCalls, maxpush |-> MaxPush, maxticks |-> MaxTicks]

(* --------------------- LayerForgeNode.__init__ ------------------------- *)

Construct(t) ==
    /\ pc[t] = "new"
    /\ \E k \in 1..world.nthreads :
          /\ ThreadOrder[k] = t
          /\ \A j \in 1..(k - 1) : pc[ThreadOrder[j]] # "new"
    /\ pc' = [pc EXCEPT ![t] = "ready"]
    /\ _canvas_cache' = node_init(_canvas_cache, now)
    /\ UNCHANGED <<_processing_lock, _storage_lock, _canvas_data_storage,
                   _websocket_data, now, args, canvas_data, result, ws, g_call,
                   g_push, g_lastOutput, g_hist, ncalls, npush, nticks, world, g_input, routeVars>>

(* ------------------------ process_canvas_image ------------------------- *)

\* Variant of the entry in which a skipped invocation has already popped the
\* entry of its node id when it finds the guard held.
InvokePopsBeforeGuard(t, node_id, input_image, input_mask, fit_on_add) ==
    /\ pc[t] = "ready"
    /\ \E k \in 1..world.nthreads :
          /\ ThreadOrder[k] = t
          /\ \A j \in 1..(k - 1) : pc[ThreadOrder[j]] # "ready"
    /\ ncalls < world.maxcalls
    /\ ncalls' = ncalls + 1
    /\ UNCHANGED canvas_data
    /\ IF ~_processing_lock
       THEN /\ _processing_lock' = TRUE
            /\ UNCHANGED _canvas_data_storage
            /\ pc' = [pc EXCEPT ![t] = "store_lock"]
            /\ args' = [args EXCEPT ![t] =
                  [node_id |-> node_id, input_image |-> input_image,
                   input_mask |-> input_mask, fit_on_add |-> fit_on_add]]
            /\ result' = [result EXCEPT ![t] = NoResult]
            /\ g_call' = [g_call EXCEPT ![t] = [acquired |-> TRUE, popped |-> FALSE, releases |-> 0]]
       ELSE /\ _processing_lock' = _processing_lock
            /\ _canvas_data_storage' =
                  storage_pop_rest(_canvas_data_storage, node_id)
            /\ pc' = [pc EXCEPT ![t] = "fin_check"]
            /\ args' = [args EXCEPT ![t] = NoArgs]
            /\ result' = [result EXCEPT ![t] = get_cached_data(_canvas_cache)]
            /\ g_call' = [g_call EXCEPT ![t] = [acquired |-> FALSE, popped |-> FALSE, releases |-> 0]]
    /\ UNCHANGED <<_storage_lock, _canvas_cache,
                   _websocket_data, now, ws, g_push, g_lastOutput, g_hist,
                   npush, nticks, world, g_input, routeVars>>

\* Lines 213-217: the non-blocking acquire; a failed one returns the cache.
\* Idle threads are interchangeable: the host hands the call to the first one.
Invoke(t, node_id, input_image, input_mask, fit_on_add) ==
    /\ pc[t] = "ready"
    /\ \E k \in 1..world.nthreads :
          /\ ThreadOrder[k] = t
          /\ \A j \in 1..(k - 1) : pc[ThreadOrder[j]] # "ready"
    /\ ncalls < world.maxcalls
    /\ ncalls' = ncalls + 1
    /\ UNCHANGED canvas_data
    /\ IF ~_processing_lock
       THEN /\ _processing_lock' = TRUE
            /\ pc' = [pc EXCEPT ![t] = "store_lock"]
            /\ args' = [args EXCEPT ![t] =
                  [node_id |-> node_id, input_image |-> input_image,
                   input_mask |-> input_mask, fit_on_add |-> fit_on_add]]
            /\ result' = [result EXCEPT ![t] = NoResult]
            /\ g_call' = [g_call EXCEPT ![t] = [acquired |-> TRUE, popped |-> FALSE, releases |-> 0]]
       ELSE /\ _processing_lock' = _processing_lock
            /\ pc' = [pc EXCEPT ![t] = "fin_check"]
            /\ args' = [args EXCEPT ![t] = NoArgs]
            /\ result' = [result EXCEPT ![t] = get_cached_data(_canvas_cache)]
            /\ g_call' = [g_call EXCEPT ![t] = [acquired |-> FALSE, popped |-> FALSE, releases |-> 0]]
    /\ UNCHANGED <<_storage_lock, _canvas_data_storage, _canvas_cache,
                   _websocket_data, now, ws, g_push, g_lastOutput, g_hist,
                   npush, nticks, world, g_input, routeVars>>

\* Line 220: with _storage_lock (blocks until the lock is free).
StoreLock(t) ==
    /\ pc[t] = "store_lock"
    /\ _storage_lock = Free
    /\ _storage_lock' = t
    /\ pc' = [pc EXCEPT ![t] = "store"]
    /\ UNCHANGED <<_processing_lock, _canvas_data_storage, _canvas_cache,
                   _websocket_data, now, args, canvas_data, result, ws, g_call,
                   g_push, g_lastOutput, g_hist, ncalls, npush, nticks, world, g_input, routeVars>>

\* Variant of Store that takes and frees the storage lock by hand, without
\* the with block of line 220: an exception while the snapshot is built
\* leaves the lock held.
StoreKeepsLockOnError(t) ==
    /\ pc[t] = "store"
    /\ _storage_lock = t
    /\ IF args[t].input_image # None /\ ~Encodable(args[t].input_image)
       THEN /\ result' = [result EXCEPT ![t] = Tuple(None, None)]
            /\ pc' = [pc EXCEPT ![t] = "fin_check"]
            /\ args' = [args EXCEPT ![t] = NoArgs]
            /\ UNCHANGED <<_storage_lock, _canvas_data_storage, g_input>>
       ELSE /\ _storage_lock' = Free
            /\ _canvas_data_storage' =
                  storage_put_input(_canvas_data_storage, args[t].node_id,
                                    input_data(args[t]))
            /\ pc' = [pc EXCEPT ![t] = "pop_lock"]
            /\ args' = [args EXCEPT ![t] =
                          [NoArgs EXCEPT !.node_id = args[t].node_id]]
            /\ g_input' = [g_input EXCEPT ![args[t].node_id] = input_data(args[t])]
            /\ UNCHANGED result
    /\ UNCHANGED <<_processing_lock, _canvas_cache, _websocket_data, now,
                   canvas_data, ws, g_call, g_push, g_lastOutput, g_hist,
                   ncalls, npush, nticks, world, routeVars>>

\* Variant of Store that assigns the still empty input_data into the store
\* at line 220, before the conversions of lines 224-266.
StoreAssignsBeforeBuilding(t) ==
    /\ pc[t] = "store"
    /\ _storage_lock = t
    /\ _storage_lock' = Free
    /\ IF args[t].input_image # None /\ ~Encodable(args[t].input_image)
       THEN /\ result' = [result EXCEPT ![t] = Tuple(None, None)]
            /\ pc' = [pc EXCEPT ![t] = "fin_check"]
            /\ _canvas_data_storage' =
                  storage_put_input(_canvas_data_storage, args[t].node_id,
                                    EmptyDict)
            /\ args' = [args EXCEPT ![t] = NoArgs]
            /\ UNCHANGED g_input
       ELSE /\ _canvas_data_storage' =
                  storage_put_input(_canvas_data_storage, args[t].node_id,
                                    input_data(args[t]))
            /\ pc' = [pc EXCEPT ![t] = "pop_lock"]
            /\ args' = [args EXCEPT ![t] =
                          [NoArgs EXCEPT !.node_id = args[t].node_id]]
            /\ g_input' = [g_input EXCEPT ![args[t].node_id] = input_data(args[t])]
            /\ UNCHANGED result
    /\ UNCHANGED <<_processing_lock, _canvas_cache, _websocket_data, now,
                   canvas_data, ws, g_call, g_push, g_lastOutput, g_hist,
                   ncalls, npush, nticks, world, routeVars>>

\* Lines 221-269: build and store the input snapshot; a tensor that does not
\* convert raises inside the with block (lines 312-314 then return (None, None)).
Store(t) ==
    /\ pc[t] = "store"
    /\ _storage_lock = t
    /\ _storage_lock' = Free
    /\ IF args[t].input_image # None /\ ~Encodable(args[t].input_image)
       THEN /\ result' = [result EXCEPT ![t] = Tuple(None, None)]
            /\ pc' = [pc EXCEPT ![t] = "fin_check"]
            /\ args' = [args EXCEPT ![t] = NoArgs]
            /\ UNCHANGED <<_canvas_data_storage, g_input>>
       ELSE /\ _canvas_data_storage' =
                  storage_put_input(_canvas_data_storage, args[t].node_id,
                                    input_data(args[t]))
            /\ pc' = [pc EXCEPT ![t] = "pop_lock"]
            /\ args' = [args EXCEPT ![t] =
                          [NoArgs EXCEPT !.node_id = args[t].node_id]]
            /\ g_input' = [g_input EXCEPT ![args[t].node_id] = input_data(args[t])]
            /\ UNCHANGED result
    /\ UNCHANGED <<_processing_lock, _canvas_cache, _websocket_data, now,
                   canvas_data, ws, g_call, g_push, g_lastOutput, g_hist,
                   ncalls, npush, nticks, world, routeVars>>

\* Line 275: with _storage_lock.
PopLock(t) ==
    /\ pc[t] = "pop_lock"
    /\ _storage_lock = Free
    /\ _storage_lock' = t
    /\ pc' = [pc EXCEPT ![t] = "pop"]
    /\ UNCHANGED <<_processing_lock, _canvas_data_storage, _canvas_cache,
                   _websocket_data, now, args, canvas_data, result, ws, g_call,
                   g_push, g_lastOutput, g_hist, ncalls, npush, nticks, world, g_input, routeVars>>

\* Line 276: canvas_data = _canvas_data_storage.pop(storage_key, None)
Pop(t) ==
    /\ pc[t] = "pop"
    /\ _storage_lock = t
    /\ _storage_lock' = Free
    /\ canvas_data' = [canvas_data EXCEPT ![t] =
          storage_pop_value(_canvas_data_storage, args[t].node_id)]
    /\ _canvas_data_storage' =
          storage_pop_rest(_canvas_data_storage, args[t].node_id)
    /\ g_push' = [g_push EXCEPT ![args[t].node_id] =
          [last |-> @.last, unpopped |-> FALSE,
           taken |-> @.taken \/ (@.last # Absent /\
              storage_pop_value(_canvas_data_storage, args[t].node_id) = @.last)]]
    /\ g_call' = [g_call EXCEPT ![t].popped = TRUE]
    /\ pc' = [pc EXCEPT ![t] = "decode"]
    /\ UNCHANGED <<_processing_lock, _canvas_cache, _websocket_data, now, args,
                   result, ws, g_lastOutput, g_hist, ncalls, npush, nticks, world, g_input, routeVars>>

\* Variant of the end of the try body in which the exception handler commits
\* the cache as well.
DecodeCommitsOnError(t) ==
    /\ pc[t] = "decode"
    /\ pc' = [pc EXCEPT ![t] = "fin_check"]
    /\ args' = [args EXCEPT ![t] = NoArgs]
    /\ _canvas_cache' = update_persistent_cache(_canvas_cache)
    /\ IF canvas_data[t].kind # "absent" /\ decode_raises(canvas_data[t])
       THEN /\ result' = [result EXCEPT ![t] = Tuple(None, None)]
            /\ UNCHANGED g_lastOutput
       ELSE /\ result' = [result EXCEPT ![t] =
                  Tuple(processed_image(canvas_data[t]),
                        processed_mask(canvas_data[t]))]
            /\ g_lastOutput' = [image |-> processed_image(canvas_data[t]),
                                mask |-> processed_mask(canvas_data[t])]
    /\ UNCHANGED <<_processing_lock, _storage_lock, _canvas_data_storage,
                   _websocket_data, now, canvas_data, ws, g_call, g_push,
                   g_hist, ncalls, npush, nticks, world, g_input, routeVars>>

\* Lines 278-314: decode, default placeholders, update_persistent_cache and
\* the return; any exception returns (None, None).
Decode(t) ==
    /\ pc[t] = "decode"
    /\ pc' = [pc EXCEPT ![t] = "fin_check"]
    /\ args' = [args EXCEPT ![t] = NoArgs]
    /\ IF canvas_data[t].kind # "absent" /\ decode_raises(canvas_data[t])
       THEN /\ result' = [result EXCEPT ![t] = Tuple(None, None)]
            /\ UNCHANGED <<_canvas_cache, g_lastOutput>>
       ELSE /\ result' = [result EXCEPT ![t] =
                  Tuple(processed_image(canvas_data[t]),
                        processed_mask(canvas_data[t]))]
            /\ _canvas_cache' = update_persistent_cache(_canvas_cache)
            /\ g_lastOutput' = [image |-> processed_image(canvas_data[t]),
                                mask |-> processed_mask(canvas_data[t])]
    /\ UNCHANGED <<_processing_lock, _storage_lock, _canvas_data_storage,
                   _websocket_data, now, canvas_data, ws, g_call, g_push,
                   g_hist, ncalls, npush, nticks, world, g_input, routeVars>>

\* Fault-injected variant of the finally block: the release happens only
\* when the try body did not raise.
FinCheckAfterSuccess(t) ==
    /\ pc[t] = "fin_check"
    /\ pc' = [pc EXCEPT ![t] =
                IF _processing_lock /\ result[t] # Tuple(None, None)
                THEN "fin_release" ELSE "return"]
    /\ UNCHANGED <<_processing_lock, _storage_lock, _canvas_data_storage,
                   _canvas_cache, _websocket_data, now, args, canvas_data,
                   result, ws, g_call, g_push, g_lastOutput, g_hist, ncalls,
                   npush, nticks, world, g_input, routeVars>>

\* Line 316: if _processing_lock.locked()
FinCheck(t) ==
    /\ pc[t] = "fin_check"
    /\ pc' = [pc EXCEPT ![t] = IF _processing_lock THEN "fin_release" ELSE "return"]
    /\ UNCHANGED <<_processing_lock, _storage_lock, _canvas_data_storage,
                   _canvas_cache, _websocket_data, now, args, canvas_data,
                   result, ws, g_call, g_push, g_lastOutput, g_hist, ncalls,
                   npush, nticks, world, g_input, routeVars>>

\* Line 317: _processing_lock.release(); releasing an unlocked lock raises
\* RuntimeError, which leaves the finally block in place of the return.
FinRelease(t) ==
    /\ pc[t] = "fin_release"
    /\ pc' = [pc EXCEPT ![t] = "return"]
    /\ IF _processing_lock
       THEN /\ _processing_lock' = FALSE
            /\ g_call' = [g_call EXCEPT ![t].releases = @ + 1]
            /\ UNCHANGED result
       ELSE /\ result' = [result EXCEPT ![t] = Raised("RuntimeError")]
            /\ UNCHANGED <<_processing_lock, g_call>>
    /\ UNCHANGED <<_storage_lock, _canvas_data_storage, _canvas_cache,
                   _websocket_data, now, args, canvas_data, ws, g_push,
                   g_lastOutput, g_hist, ncalls, npush, nticks, world, g_input, routeVars>>

\* The caller takes the returned value (or the exception); the instance is
\* ready for its next invocation.
Return(t) ==
    /\ pc[t] = "return"
    /\ pc' = [pc EXCEPT ![t] = "ready"]
    /\ result' = [result EXCEPT ![t] = NoResult]
    /\ canvas_data' = [canvas_data EXCEPT ![t] = Absent]
    /\ g_call' = [g_call EXCEPT ![t] = [acquired |-> FALSE, popped |-> FALSE, releases |-> 0]]
    /\ UNCHANGED <<_processing_lock, _storage_lock, _canvas_data_storage,
                   _canvas_cache, _websocket_data, now, args, ws, g_push,
                   g_lastOutput, g_hist, ncalls, npush, nticks, world, g_input, routeVars>>

(* ----------------------- handle_canvas_websocket ----------------------- *)

\* The handlers of all connections are coroutines of one event loop: between
\* two awaits a handler runs alone, also while it waits for the storage lock.
LoopBusy == \E c \in Conns : ws[c].pc \in {"ws_lock", "ws_write"}

\* Lines 414-424: a text message; one without a nodeId is answered with an
\* error and the loop continues.
Recv(c, nodeId, image, mask) ==
    /\ ws[c].pc = "idle"
    /\ ~LoopBusy
    /\ npush < world.maxpush
    /\ npush' = npush + 1
    /\ IF ~Truthy(nodeId)
       THEN ws' = [ws EXCEPT ![c] =
                [pc |-> "ws_send", msg |-> NoMsg,
                 reply |-> [status |-> "error", nodeId |-> None]]]
       ELSE ws' = [ws EXCEPT ![c] =
                [pc |-> "ws_lock",
                 msg |-> [nodeId |-> nodeId, image |-> image, mask |-> mask],
                 reply |-> NoReply]]
    /\ UNCHANGED <<_processing_lock, _storage_lock, _canvas_data_storage,
                   _canvas_cache, _websocket_data, now, pc, args, canvas_data,
                   result, g_call, g_push, g_lastOutput, g_hist, ncalls, nticks, world, g_input, routeVars>>

\* Line 426: with cls._storage_lock.
WsLock(c) ==
    /\ ws[c].pc = "ws_lock"
    /\ _storage_lock = Free
    /\ _storage_lock' = c
    /\ ws' = [ws EXCEPT ![c].pc = "ws_write"]
    /\ UNCHANGED <<_processing_lock, _canvas_data_storage, _canvas_cache,
                   _websocket_data, now, pc, args, canvas_data, result, g_call,
                   g_push, g_lastOutput, g_hist, ncalls, npush, nticks, world, g_input, routeVars>>

\* Lines 427-439: store the edit, release the lock, build the ack.
WsWrite(c) ==
    /\ ws[c].pc = "ws_write"
    /\ _storage_lock = c
    /\ _storage_lock' = Free
    /\ _canvas_data_storage' = storage_put_edit(_canvas_data_storage, ws[c].msg, now)
    /\ g_push' = [g_push EXCEPT ![ws[c].msg.nodeId] =
          [last |-> storage_put_edit(_canvas_data_storage, ws[c].msg, now)[ws[c].msg.nodeId],
           unpopped |-> TRUE, taken |-> FALSE]]
    /\ ws' = [ws EXCEPT ![c] =
          [pc |-> "ws_send", msg |-> NoMsg,
           reply |-> [status |-> "success", nodeId |-> ws[c].msg.nodeId]]]
    /\ UNCHANGED <<_processing_lock, _canvas_cache, _websocket_data, now, pc,
                   args, canvas_data, result, g_call, g_lastOutput, g_hist,
                   ncalls, npush, nticks, world, g_input, routeVars>>

\* Lines 420 and 440: await ws.send_json(...); the loop then takes the next
\* message.
WsSend(c) ==
    /\ ws[c].pc = "ws_send"
    /\ ws' = [ws EXCEPT ![c] = [pc |-> "idle", msg |-> NoMsg, reply |-> NoReply]]
    /\ UNCHANGED <<_processing_lock, _storage_lock, _canvas_data_storage,
                   _canvas_cache, _websocket_data, now, pc, args, canvas_data,
                   result, g_call, g_push, g_lastOutput, g_hist, ncalls, npush,
                   nticks, world, g_input, routeVars>>

(* -------------------------------- routes ------------------------------- *)

\* Lines 458-474: the poll reads the key f"{node_id}_input"; any stored dict
\* is truthy.
get_input_data_response(storage, node_id) ==
    LET stored == storage[input_key(node_id)]
    IN  IF stored # Absent
        THEN [route |-> "get_input_data", node_id |-> node_id,
              success |-> TRUE, has_input |-> TRUE, data |-> stored]
        ELSE [route |-> "get_input_data", node_id |-> node_id,
              success |-> TRUE, has_input |-> FALSE, data |-> Absent]

\* Lines 489-494: del of the key f"{node_id}_input" when it is present.
storage_clear_input(storage, node_id) ==
    [storage EXCEPT ![input_key(node_id)] = Absent]

\* Lines 497-500.
clear_input_data_response(node_id) ==
    [route |-> "clear_input_data", node_id |-> node_id, success |-> TRUE]

\* Lines 515-548: the cached image and mask are encoded with a PIL save; a
\* cached value that is no PIL image raises and the route answers success
\* False.
get_canvas_data_response(cache, node_id) ==
    IF cache.image # None \/ cache.mask # None
    THEN [route |-> "get_canvas_data", node_id |-> node_id, success |-> FALSE]
    ELSE [route |-> "get_canvas_data", node_id |-> node_id, success |-> TRUE]

\* The route handlers are coroutines of the event loop that serves the
\* WebSocket handlers; `with cls._storage_lock` blocks the loop until the lock
\* is free, and nothing awaits while it is held.
GetInputData(node_id) ==
    /\ ~LoopBusy
    /\ _storage_lock = Free
    /\ http' = get_input_data_response(_canvas_data_storage, node_id)
    /\ UNCHANGED <<_processing_lock, _storage_lock, _canvas_data_storage,
                   _canvas_cache, _websocket_data, now, pc, args, canvas_data,
                   result, ws, g_call, g_push, g_lastOutput, g_hist, ncalls,
                   npush, nticks, world, g_input, _matting_lock, matting>>

ClearInputData(node_id) ==
    /\ ~LoopBusy
    /\ _storage_lock = Free
    /\ _canvas_data_storage' = storage_clear_input(_canvas_data_storage, node_id)
    /\ http' = clear_input_data_response(node_id)
    /\ UNCHANGED <<_processing_lock, _storage_lock, _canvas_cache,
                   _websocket_data, now, pc, args, canvas_data, result, ws,
                   g_call, g_push, g_lastOutput, g_hist, ncalls, npush, nticks,
                   world, g_input, _matting_lock, matting>>

GetCanvasData(node_id) ==
    /\ ~LoopBusy
    /\ http' = get_canvas_data_response(_canvas_cache, node_id)
    /\ UNCHANGED <<_processing_lock, _storage_lock, _canvas_data_storage,
                   _canvas_cache, _websocket_data, now, pc, args, canvas_data,
                   result, ws, g_call, g_push, g_lastOutput, g_hist, ncalls,
                   npush, nticks, world, g_input, _matting_lock, matting>>

(* ------------------------------- /matting ------------------------------ *)

\* Variant of the entry in which the busy check sits inside the try block,
\* so that the finally block of a rejected request clears the gate.
MattingEnterInsideTry(r) ==
    /\ matting[r].pc = "idle"
    /\ IF ~world.TRANSFORMERS_AVAILABLE
       THEN /\ matting' = [matting EXCEPT ![r] = [pc |-> "idle", status |-> "400"]]
            /\ UNCHANGED _matting_lock
       ELSE IF _matting_lock # None
       THEN /\ matting' = [matting EXCEPT ![r] = [pc |-> "idle", status |-> "429"]]
            /\ _matting_lock' = None
       ELSE /\ matting' = [matting EXCEPT ![r] = [pc |-> "segmenting", status |-> None]]
            /\ _matting_lock' = "True"
    /\ UNCHANGED <<_processing_lock, _storage_lock, _canvas_data_storage,
                   _canvas_cache, _websocket_data, now, pc, args, canvas_data,
                   result, ws, g_call, g_push, g_lastOutput, g_hist, ncalls,
                   npush, nticks, world, g_input, http>>

\* Lines 846-861: the dependency check, the busy check and the taking of the
\* gate run without an await between them.
MattingEnter(r) ==
    /\ matting[r].pc = "idle"
    /\ IF ~world.TRANSFORMERS_AVAILABLE
       THEN /\ matting' = [matting EXCEPT ![r] = [pc |-> "idle", status |-> "400"]]
            /\ UNCHANGED _matting_lock
       ELSE IF _matting_lock # None
       THEN /\ matting' = [matting EXCEPT ![r] = [pc |-> "idle", status |-> "429"]]
            /\ UNCHANGED _matting_lock
       ELSE /\ matting' = [matting EXCEPT ![r] = [pc |-> "segmenting", status |-> None]]
            /\ _matting_lock' = "True"
    /\ UNCHANGED <<_processing_lock, _storage_lock, _canvas_data_storage,
                   _canvas_cache, _websocket_data, now, pc, args, canvas_data,
                   result, ws, g_call, g_push, g_lastOutput, g_hist, ncalls,
                   npush, nticks, world, g_input, http>>

\* How the try block ends: the response of line 878, a RuntimeError or any
\* other Exception (500, lines 882-894), or the cancellation of the request
\* while it awaits request.json() (no response).
MattingOutcomes == {"200", "500", "cancelled"}

\* Lines 861-898: await request.json(), the segmentation, and the finally
\* block.
MattingFinish(r, outcome) ==
    /\ matting[r].pc = "segmenting"
    /\ matting' = [matting EXCEPT ![r] = [pc |-> "idle", status |-> outcome]]
    /\ _matting_lock' = None
    /\ UNCHANGED <<_processing_lock, _storage_lock, _canvas_data_storage,
                   _canvas_cache, _websocket_data, now, pc, args, canvas_data,
                   result, ws, g_call, g_push, g_lastOutput, g_hist, ncalls,
                   npush, nticks, world, g_input, http>>

(* ------------------------------ environment ---------------------------- *)

\* The wall clock advances.
Tick(d) ==
    /\ nticks < world.maxticks
    /\ nticks' = nticks + 1
    /\ now' = now + d
    /\ UNCHANGED <<_processing_lock, _storage_lock, _canvas_data_storage,
                   _canvas_cache, _websocket_data, pc, args, canvas_data,
                   result, ws, g_call, g_push, g_lastOutput, g_hist, ncalls,
                   npush, world, g_input, routeVars>>

\* Lines 379-405: the sweep, a classmethod over _websocket_data.
Cleanup ==
    /\ _websocket_data' = cleanup_old_websocket_data(_websocket_data, now)
    /\ UNCHANGED <<_processing_lock, _storage_lock, _canvas_data_storage,
                   _canvas_cache, now, pc, args, canvas_data, result, ws,
                   g_call, g_push, g_lastOutput, g_hist, ncalls, npush, nticks, world, g_input, routeVars>>

(* ---------------------------- specification ---------------------------- *)

ThreadStep(t) ==
    \/ StoreLock(t)
    \/ Store(t)
    \/ PopLock(t)
    \/ Pop(t)
    \/ Decode(t)
    \/ FinCheck(t)
    \/ FinRelease(t)
    \/ Return(t)

ConnStep(c) ==
    \/ WsLock(c)
    \/ WsWrite(c)
    \/ WsSend(c)

Next ==
    \/ \E t \in Threads : Construct(t)
    \/ \E t \in Threads, n \in world.nodeIds, i \in world.inputs, f \in FitOnAdd :
          Invoke(t, n, i[1], i[2], f)
    \/ \E t \in Threads : StoreLock(t)
    \/ \E t \in Threads : Store(t)
    \/ \E t \in Threads : PopLock(t)
    \/ \E t \in Threads : Pop(t)
    \/ \E t \in Threads : Decode(t)
    \/ \E t \in Threads : FinCheck(t)
    \/ \E t \in Threads : FinRelease(t)
    \/ \E t \in Threads : Return(t)
    \/ \E c \in world.conns, n \in world.nodeIds \cup {None}, m \in world.pushes :
          Recv(c, n, m[1], m[2])
    \/ \E c \in Conns : WsLock(c)
    \/ \E c \in Conns : WsWrite(c)
    \/ \E c \in Conns : WsSend(c)
    \/ \E d \in world.ticks : Tick(d)
    \/ Cleanup

Spec == Init /\ [][Next]_vars

StoreSpec == StoreInit /\ [][Next]_vars

\* Every thread that is inside process_canvas_image keeps running, and the
\* event loop keeps serving a handler that has taken a message.
Fairness ==
    /\ \A t \in Threads : WF_vars(ThreadStep(t))
    /\ \A c \in Conns : WF_vars(ConnStep(c))

FairSpec == Spec /\ Fairness

(* ------------------ the node, the push channel and the routes ---------- *)

\* Two threads, one push, node ids whose keys collide; the routes are
\* requested at any time.
InputInit ==
    /\ _canvas_cache = EmptyCache
    /\ InitRest
    /\ world = [nthreads |-> 2, conns |-> {"c1"}, nodeIds |-> NodeIds,
                inputs |-> {<<None, None>>, <<"tensorA", "tensorM">>},
                pushes |-> {<<"data:image/png;base64,A", None>>,
                            <<"garbage", "data:image/png;base64,B">>},
                maxcalls |-> MaxInputCalls, maxpush |-> MaxInputPush]

InputNext ==
    \/ \E t \in Threads : Construct(t)
    \/ \E t \in Threads, n \in world.nodeIds, i \in world.inputs, f \in FitOnAdd :
          Invoke(t, n, i[1], i[2], f)
    \/ \E t \in Threads : ThreadStep(t)
    \/ \E c \in world.conns, n \in world.nodeIds \cup {None}, m \in world.pushes :
          Recv(c, n, m[1], m[2])
    \/ \E c \in Conns : ConnStep(c)
    \/ \E n \in world.nodeIds : GetInputData(n)
    \/ \E n \in world.nodeIds : ClearInputData(n)
    \/ \E n \in world.nodeIds : GetCanvasData(n)

InputSpec == InputInit /\ [][InputNext]_vars

(* ------------------------------ the matting gate ----------------------- *)

\* TRANSFORMERS_AVAILABLE is fixed when the module is imported (lines 13-18).
MattingInit ==
    /\ _canvas_cache = EmptyCache
    /\ InitRest
    /\ world \in {[TRANSFORMERS_AVAILABLE |-> b] : b \in BOOLEAN}

MattingNext ==
    \/ \E r \in MattingRequests : MattingEnter(r)
    \/ \E r \in MattingRequests, o \in MattingOutcomes : MattingFinish(r, o)

MattingSpec == MattingInit /\ [][MattingNext]_vars

(* ------------------- the cache methods, called directly ---------------- *)

\* Contents of the live fields and of the persistent copy.
CacheImages == {None, "rgb(A)", "rgb(B)"}
CacheMasks == {None, "gray(B)"}
PersistentCaches ==
    {EmptyDict} \cup {[kind |-> "dict", image |-> i, mask |-> m] :
                        i \in CacheImages, m \in CacheMasks}

\* restore_cache and update_persistent_cache are exercised from every content
\* of the class-level cache.
CacheInit ==
    /\ _canvas_cache \in
          {[image |-> i, mask |-> m, data_flow_status |-> << >>,
            persistent_cache |-> p, last_execution_id |-> e] :
              i \in CacheImages, m \in CacheMasks, p \in PersistentCaches,
              e \in {None, get_execution_id(0)}}
    /\ InitRest
    /\ world = [nthreads |-> 0, conns |-> {}, nodeIds |-> {}, inputs |-> {},
                pushes |-> {}, ticks |-> {ShortStep, StaleStep},
                maxcalls |-> 0, maxpush |-> 0, maxticks |-> MaxTicks]

\* The last three calls, oldest first.
Remember(call) ==
    LET h == Append(g_hist, call)
    IN  IF Len(h) > 3 THEN Tail(h) ELSE h

CallRestoreCache ==
    /\ _canvas_cache' = restore_cache(_canvas_cache, now)
    /\ g_hist' = Remember(
          [op |-> "restore", id |-> get_execution_id(now),
           same |-> (get_execution_id(now) = _canvas_cache.last_execution_id),
           image |-> None, mask |-> None])
    /\ UNCHANGED <<_processing_lock, _storage_lock, _canvas_data_storage,
                   _websocket_data, now, pc, args, canvas_data, result, ws,
                   g_call, g_push, g_lastOutput, ncalls, npush, nticks, world, g_input, routeVars>>

CallUpdatePersistentCache ==
    /\ _canvas_cache' = update_persistent_cache(_canvas_cache)
    /\ g_hist' = Remember(
          [op |-> "commit", id |-> None, same |-> FALSE,
           image |-> _canvas_cache.image, mask |-> _canvas_cache.mask])
    /\ UNCHANGED <<_processing_lock, _storage_lock, _canvas_data_storage,
                   _websocket_data, now, pc, args, canvas_data, result, ws,
                   g_call, g_push, g_lastOutput, ncalls, npush, nticks, world, g_input, routeVars>>

CacheNext ==
    \/ CallRestoreCache
    \/ CallUpdatePersistentCache
    \/ \E d \in world.ticks : Tick(d)

CacheSpec == CacheInit /\ [][CacheNext]_vars

(* ------------------------------ properties ----------------------------- *)

\* Positions inside the guarded region of process_canvas_image (lines 218-310).
Guarded == {"store_lock", "store", "pop_lock", "pop", "decode"}
\* Positions of an invocation that has not returned yet.
InProgress == Guarded \cup {"fin_check", "fin_release"}

\* C1: at most one invocation is inside the guarded region at any time.
C1_SingleFlight ==
    Cardinality({t \in Threads : pc[t] \in Guarded}) <= 1

\* C2: the guard is released only by the invocation that acquired it, and
\* that invocation releases it exactly once before it returns.
C2_ReleaseByAcquirerOnce ==
    \A t \in Threads :
        /\ g_call[t].releases <= (IF g_call[t].acquired THEN 1 ELSE 0)
        /\ (pc[t] = "return" /\ g_call[t].acquired) => g_call[t].releases = 1

\* C3: when no invocation is in progress the guard is free, and a held guard
\* is always eventually released.
C3_GuardReleased ==
    /\ []((\A t \in Threads : pc[t] \notin InProgress) => ~_processing_lock)
    /\ (_processing_lock ~> ~_processing_lock)

\* C3 witness: an invocation that acquired the guard and raised inside the
\* guarded region is about to return, and the guard is free.
C3_Witness ==
    \E t \in Threads :
        /\ pc[t] = "return"
        /\ g_call[t].acquired
        /\ result[t] = Tuple(None, None)
        /\ ~_processing_lock

\* C4: an invocation that finds the guard held returns the image and mask
\* produced by the most recent successful computation.
C4_SkipReturnsLastOutputs ==
    [][\A t \in Threads :
         (pc[t] = "ready" /\ pc'[t] = "fin_check")
            => /\ result'[t].image = g_lastOutput.image
               /\ result'[t].mask = g_lastOutput.mask]_vars

\* The step of thread t that pops the entry of its node id (line 276).
PopStep(t) == pc[t] = "pop" /\ pc'[t] = "decode"

C6_LastWriteWins ==
    [][\A t \in Threads :
         (PopStep(t) /\ g_push[args[t].node_id].unpopped)
            => canvas_data'[t] = g_push[args[t].node_id].last]_vars

\* C7: restore_cache under e1, a commit, then restore_cache under e2 # e1
\* leave the live image and mask empty and last_execution_id = e2.
C7_ExecutionReset ==
    ( /\ Len(g_hist) = 3
      /\ g_hist[1].op = "restore"
      /\ g_hist[2].op = "commit"
      /\ g_hist[3].op = "restore"
      /\ g_hist[3].id # g_hist[1].id )
    => /\ _canvas_cache.image = None
       /\ _canvas_cache.mask = None
       /\ _canvas_cache.last_execution_id = g_hist[3].id

\* C7 witness: the sequence has happened with a non-empty committed pair.
C7_Witness ==
    /\ Len(g_hist) = 3
    /\ g_hist[1].op = "restore"
    /\ g_hist[2].op = "commit"
    /\ g_hist[2].image # None
    /\ g_hist[2].mask # None
    /\ g_hist[3].op = "restore"
    /\ g_hist[3].id # g_hist[1].id
    /\ _canvas_cache.image = None
    /\ _canvas_cache.persistent_cache.image # None

\* The calls after position i of the history are restore_cache calls whose
\* execution id equalled last_execution_id.
SameRestoresAfter(i) ==
    \A j \in (i + 1)..Len(g_hist) : g_hist[j].op = "restore" /\ g_hist[j].same

\* C8: after a commit of (img, msk), one or two restore_cache calls with the
\* execution id equal to last_execution_id leave the live pair = (img, msk).
C8_ExecutionContinuity ==
    \A i \in 1..Len(g_hist) :
        (g_hist[i].op = "commit" /\ i < Len(g_hist) /\ SameRestoresAfter(i))
            => /\ _canvas_cache.image = g_hist[i].image
               /\ _canvas_cache.mask = g_hist[i].mask

\* C8 witness: a non-empty commit followed by two same-execution restores.
C8_Witness ==
    /\ Len(g_hist) = 3
    /\ g_hist[1].op = "commit"
    /\ g_hist[1].image # None
    /\ g_hist[1].mask # None
    /\ SameRestoresAfter(1)
    /\ _canvas_cache.image = g_hist[1].image

\* C9: a pop never returns a pushed edit whose timestamp is more than the
\* staleness threshold in the past.
C9_NoStaleEdit ==
    [][\A t \in Threads :
         (PopStep(t) /\ canvas_data'[t].kind = "edit")
            => now - canvas_data'[t].timestamp <= cleanup_threshold * 1000]_vars

\* C10: an invocation that acquired the guard and popped returns the zero
\* placeholders when it found no edit, and the placeholder for the missing
\* part when the edit carries only an image or only a mask.
C10_DefaultSafety ==
    \A t \in Threads :
        (pc[t] = "return" /\ g_call[t].popped) =>
            LET image == GetImage(canvas_data[t])
                mask == GetMask(canvas_data[t])
            IN  /\ (canvas_data[t] = Absent /\ _canvas_cache.image = None
                                            /\ _canvas_cache.mask = None)
                      => result[t] = Tuple(ZerosImage, ZerosMask)
                /\ (Decodable(image) /\ mask = None)
                      => result[t] = Tuple(DecodeImage(image), ZerosMask)
                /\ (image = None /\ Decodable(mask))
                      => result[t] = Tuple(ZerosImage, DecodeMask(mask))

\* C11: an invocation whose popped edit has an image or mask text that does
\* not decode still returns a non-null image and a non-null mask: the
\* placeholder for the part that does not decode, the decoded tensor (or the
\* placeholder, when it is absent) for the other part.
C11_DecodeErrorsDegrade ==
    \A t \in Threads :
        (/\ pc[t] = "return"
         /\ g_call[t].popped
         /\ canvas_data[t].kind = "edit"
         /\ decode_raises(canvas_data[t])
         /\ result[t].kind # "RuntimeError")
        => LET image == GetImage(canvas_data[t])
               mask == GetMask(canvas_data[t])
           IN  /\ result[t].kind = "tuple"
               /\ result[t].image =
                    (IF Decodable(image) THEN DecodeImage(image) ELSE ZerosImage)
               /\ result[t].mask =
                    (IF Decodable(mask) THEN DecodeMask(mask) ELSE ZerosMask)

\* C12: every invocation ends by returning a value (the output tuple, the
\* (None, None) of the exception path or the cached dict of the skipped
\* path); none ends by raising, also not from the finally block.
C12_NoExceptionEscapes ==
    \A t \in Threads :
        pc[t] = "return" => result[t].kind \in {"tuple", "dict"}

\* The step in which thread t completes the try body successfully and
\* returns its outputs (lines 299-310).
SuccessStep(t) ==
    /\ pc[t] = "decode"
    /\ pc'[t] = "fin_check"
    /\ result'[t] # Tuple(None, None)

\* C13: when an invocation completes successfully with outputs (img, msk),
\* the live image and mask of the shared cache equal (img, msk) and the
\* persistent copy equals the live pair, so that a cache read yields them.
C13_Commit ==
    [][\A t \in Threads :
         SuccessStep(t)
            => /\ _canvas_cache'.image = result'[t].image
               /\ _canvas_cache'.mask = result'[t].mask
               /\ _canvas_cache'.persistent_cache =
                    [kind |-> "dict", image |-> _canvas_cache'.image,
                     mask |-> _canvas_cache'.mask]
               /\ get_cached_data(_canvas_cache').image = result'[t].image
               /\ get_cached_data(_canvas_cache').mask = result'[t].mask]_vars

\* C14: the persistent copy changes only in the step that ends a successful
\* computation, and then becomes, as a whole, the pair (live image, live
\* mask) of that moment; skipped and failed invocations, restore_cache, the
\* push channel and the routes leave it as it is.
C14_PersistentCopy ==
    [][_canvas_cache'.persistent_cache # _canvas_cache.persistent_cache
         => /\ \E t \in Threads : SuccessStep(t)
            /\ _canvas_cache'.persistent_cache =
                 [kind |-> "dict", image |-> _canvas_cache.image,
                  mask |-> _canvas_cache.mask]]_vars

\* C14 witness: a computation has committed, an invocation that was skipped
\* next to it has finished, and a route has answered.
C14_Witness ==
    /\ _canvas_cache.persistent_cache.kind = "dict"
    /\ http # NoResponse
    /\ \E t, u \in Threads :
          /\ pc[t] = "return"
          /\ g_call[t].acquired
          /\ result[t] = Tuple(ZerosImage, ZerosMask)
          /\ pc[u] = "return"
          /\ ~g_call[u].acquired

\* The step in which the get_input_data route answers a poll for node id n.
PollStep(n) ==
    /\ http' # http
    /\ http'.route = "get_input_data"
    /\ http'.node_id = n
    /\ UNCHANGED <<pc, ws>>

\* C15: once an invocation for node id n has stored its input, a poll for n
\* that reports an input returns the snapshot of the last such invocation
\* and nothing else: only input_image / input_mask / fit_on_add as derived
\* from that invocation, no field of an earlier snapshot.
C15_InputSnapshotFullReplace ==
    [][\A n \in NodeIds :
         (PollStep(n) /\ http'.has_input /\ g_input[n] # Absent)
            => http'.data = g_input[n]]_vars

\* The step in which the clear_input_data route serves a request for node
\* id n.
ClearStep(n) ==
    /\ http'.route = "clear_input_data"
    /\ http'.node_id = n
    /\ (http' # http \/ _canvas_data_storage' # _canvas_data_storage)
    /\ UNCHANGED <<pc, ws>>

\* C16: clear_input_data for node id n answers success whether or not a
\* snapshot exists; afterwards n has no snapshot (a poll reports has_input
\* false) and a second clear changes nothing; no pushed edit of any node and
\* no input snapshot of another node is removed.
C16_ClearIdempotent ==
    [][\A n \in NodeIds :
         ClearStep(n)
            => /\ http'.success
               /\ ~get_input_data_response(_canvas_data_storage', n).has_input
               /\ storage_clear_input(_canvas_data_storage', n)
                     = _canvas_data_storage'
               /\ clear_input_data_response(n) = http'
               /\ \A m \in NodeIds :
                     /\ _canvas_data_storage[m].kind = "edit"
                           => _canvas_data_storage'[m] = _canvas_data_storage[m]
                     /\ m # n => _canvas_data_storage'[input_key(m)]
                                    = _canvas_data_storage[input_key(m)]]_vars

\* C17: a message with a nodeId replaces the entry stored under that node id
\* by the message's image and mask with the current time as timestamp,
\* leaves every other entry alone and is answered with an ack of status
\* success that names the nodeId; a message without a nodeId is answered
\* with an error and leaves the store unchanged; after either answer the
\* handler waits for the next message.
C17_PushAcknowledgement ==
    [][\A c \in Conns :
         /\ (ws[c].pc = "ws_write" /\ ws'[c].pc = "ws_send")
               => /\ _canvas_data_storage'[ws[c].msg.nodeId] =
                       [kind |-> "edit", image |-> ws[c].msg.image,
                        mask |-> ws[c].msg.mask, timestamp |-> now]
                  /\ \A k \in Keys \ {ws[c].msg.nodeId} :
                        _canvas_data_storage'[k] = _canvas_data_storage[k]
                  /\ ws'[c].reply =
                       [status |-> "success", nodeId |-> ws[c].msg.nodeId]
         /\ (ws[c].pc = "idle" /\ ws'[c].pc = "ws_send")
               => /\ ws'[c].reply.status = "error"
                  /\ _canvas_data_storage' = _canvas_data_storage
         /\ (ws[c].pc = "idle" /\ ws'[c].pc = "ws_lock")
               => /\ Truthy(ws'[c].msg.nodeId)
                  /\ _canvas_data_storage' = _canvas_data_storage
         /\ (ws[c].pc = "ws_send" /\ ws'[c].pc # "ws_send")
               => ws'[c].pc = "idle"]_vars

\* C17 witness: the second message received was stored after the clock
\* advanced, with no invocation in between, and is being acknowledged.
C17_Witness ==
    \E c \in Conns :
        /\ ws[c].pc = "ws_send"
        /\ ws[c].reply.status = "success"
        /\ npush = 2
        /\ now > 0
        /\ _canvas_data_storage[ws[c].reply.nodeId]
             = [kind |-> "edit", image |-> None,
                mask |-> "data:image/png;base64,B", timestamp |-> now]
        /\ g_push[ws[c].reply.nodeId].last = _canvas_data_storage[ws[c].reply.nodeId]
        /\ ~g_push[ws[c].reply.nodeId].taken
        /\ \A t \in Threads : pc[t] \in {"new", "ready"}
        /\ ncalls = 0
        /\ \A n \in NodeIds \ {ws[c].reply.nodeId} : _canvas_data_storage[n] = Absent

\* Requests inside the segmentation region (lines 861-895).
Segmenting == {r \in MattingRequests : matting[r].pc = "segmenting"}

\* C18: at most one /matting request is inside the segmentation region and
\* the gate is taken exactly while one is; a request that arrives while the
\* gate is taken is answered 429, does not enter and leaves the gate taken;
\* the holder frees the gate when it finishes, whatever the outcome; a
\* request rejected for the missing dependency (400) leaves the gate as it
\* is.
C18_MattingGate ==
    /\ [](Cardinality(Segmenting) <= 1)
    /\ []((_matting_lock # None) <=> (Segmenting # {}))
    /\ [][\A r \in MattingRequests :
            /\ (matting[r].pc = "idle" /\ matting'[r] # matting[r]
                   /\ _matting_lock # None /\ world.TRANSFORMERS_AVAILABLE)
                  => /\ matting'[r] = [pc |-> "idle", status |-> "429"]
                     /\ _matting_lock' = _matting_lock
            /\ (matting[r].pc = "segmenting" /\ matting'[r].pc # "segmenting")
                  => /\ _matting_lock' = None
                     /\ matting'[r].status \in MattingOutcomes
            /\ (matting[r].pc = "idle" /\ matting'[r] # matting[r]
                   /\ ~world.TRANSFORMERS_AVAILABLE)
                  => /\ matting'[r] = [pc |-> "idle", status |-> "400"]
                     /\ _matting_lock' = _matting_lock]_vars

\* C18 witness: one request is segmenting after an earlier request failed
\* and freed the gate, and a third request has been answered 429.
C18_Witness ==
    \E r, q, p \in MattingRequests :
        /\ matting[r].pc = "segmenting"
        /\ matting[q] = [pc |-> "idle", status |-> "429"]
        /\ matting[p] = [pc |-> "idle", status |-> "500"]
        /\ _matting_lock = "True"

\* C19: when an invocation that acquired the guard has returned its outputs,
\* the flow-status table holds a record under the instance's flow id whose
\* stage is "completed".
C19_FlowCompleted ==
    \A t \in Threads :
        (/\ pc[t] = "return"
         /\ g_call[t].acquired
         /\ result[t].kind = "tuple"
         /\ result[t] # Tuple(None, None))
        => get_flow_status(_canvas_cache, flow_id(t)).stage = "completed"

\* A step of an invocation of thread t that failed to acquire the guard: the
\* failed acquire with the cache read (lines 214-216) and the finally block
\* (lines 315-318).
SkippedStep(t) ==
    /\ pc'[t] # pc[t]
    /\ \/ (pc[t] = "ready" /\ pc'[t] = "fin_check")
       \/ (pc[t] \in {"fin_check", "fin_release", "return"} /\ ~g_call[t].acquired)

\* C20: no step of a skipped invocation changes the store (input snapshots
\* and pushed edits of every node id) or the shared cache (live fields,
\* persistent copy, last_execution_id).
C20_SkipLeavesDataAlone ==
    [][\A t \in Threads :
         SkippedStep(t)
            => /\ _canvas_data_storage' = _canvas_data_storage
               /\ _canvas_cache' = _canvas_cache]_vars

\* C20 witness: a skipped invocation has finished while the store holds a
\* pushed edit and an input snapshot and the cache holds a committed copy.
C20_Witness ==
    \E t \in Threads :
        /\ pc[t] = "return"
        /\ ~g_call[t].acquired
        /\ result[t].kind = "dict"
        /\ \E n \in NodeIds : _canvas_data_storage[n].kind = "edit"
        /\ \E n \in NodeIds : _canvas_data_storage[input_key(n)].kind = "input"
        /\ _canvas_cache.persistent_cache.kind = "dict"

\* The values the clock has shown up to now: it starts at 0 and advances by
\* StaleStep.
ClockValues == {k * StaleStep : k \in 0..MaxTicks}
ExecutionIdsSoFar == {get_execution_id(x) : x \in {c \in ClockValues : c <= now}}

\* C21: a non-skipped invocation applies the execution-identity check
\* (restore_cache with the current execution id) after storing its input and
\* before its pop, so that at its pop, and when it has returned,
\* last_execution_id is an execution id computed from the clock.
C21_StepOrder ==
    [][\A t \in Threads :
         (PopStep(t) \/ (pc[t] = "fin_release" /\ pc'[t] = "return"
                           /\ g_call[t].popped))
            => _canvas_cache'.last_execution_id \in ExecutionIdsSoFar]_vars

(* ------------------------- the two locks under contention -------------- *)

\* Two threads, one of whose inputs fails to convert, one push, and the
\* routes requested at any time; every started operation keeps running.
LockInit ==
    /\ _canvas_cache = EmptyCache
    /\ InitRest
    /\ world = [nthreads |-> 2, conns |-> {"c1"}, nodeIds |-> {"7"},
                inputs |-> {<<None, None>>, <<"tensorBad", None>>},
                pushes |-> {<<"data:image/png;base64,A", None>>},
                maxcalls |-> MaxInputCalls, maxpush |-> MaxInputPush]

LockSpec == LockInit /\ [][InputNext]_vars /\ Fairness

\* C22: the two locks cannot deadlock.  Whoever holds the storage lock is
\* inside one of the with blocks (never at the guard's acquire, never
\* waiting), every hold of the storage lock ends, every invocation that has
\* started returns and every push that was received is answered.
C22_NoDeadlock ==
    /\ [](\A t \in Threads : _storage_lock = t => pc[t] \in {"store", "pop"})
    /\ [](\A c \in Conns : _storage_lock = c => ws[c].pc = "ws_write")
    /\ ((_storage_lock # Free) ~> (_storage_lock = Free))
    /\ \A t \in Threads : ((pc[t] \in InProgress) ~> (pc[t] = "return"))
    /\ \A c \in Conns : ((ws[c].pc # "idle") ~> (ws[c].pc = "idle"))

\* C22 witness: an invocation holds the storage lock inside the guarded
\* region while a push handler waits for that lock and the other thread's
\* invocation has been skipped.
C22_Witness ==
    \E t \in Threads, u \in Threads, c \in Conns :
        /\ t # u
        /\ _storage_lock = t
        /\ pc[t] = "store"
        /\ ws[c].pc = "ws_lock"
        /\ pc[u] = "return"
        /\ ~g_call[u].acquired

(* ------------------------------- the sweep ----------------------------- *)

MaxSweepCalls == 2
MaxSweepTicks == 2

\* The keys of the swept map: a negative number, a positive number and a
\* string, the three kinds of truthy nodeId a JSON message can carry
\* (lines 417-419).
SweepIds == {IntId(0 - 1), IntId(7), StrId("7")}

\* The maps over SweepIds, as sets of entries: each key is absent, or stamped
\* at time 0, or stamped one millisecond later.
SweepMaps ==
    {d \in SUBSET [node_id : SweepIds, timestamp : {0, ShortStep}] :
        \A e1 \in d, e2 \in d : e1.node_id = e2.node_id => e1 = e2}

SweepInit ==
    /\ _canvas_cache = EmptyCache
    /\ _websocket_data \in SweepMaps
    /\ InitOther
    /\ world = [nthreads |-> 0, conns |-> {}, nodeIds |-> {}, inputs |-> {},
                pushes |-> {}, ticks |-> {ShortStep, StaleStep},
                maxcalls |-> MaxSweepCalls, maxpush |-> 0,
                maxticks |-> MaxSweepTicks]

\* One run of the sweep.
CallCleanup ==
    /\ ncalls < world.maxcalls
    /\ ncalls' = ncalls + 1
    /\ _websocket_data' = cleanup_old_websocket_data(_websocket_data, now)
    /\ UNCHANGED <<_processing_lock, _storage_lock, _canvas_data_storage,
                   _canvas_cache, now, pc, args, canvas_data, result, ws,
                   g_call, g_push, g_lastOutput, g_hist, npush, nticks, world,
                   g_input, routeVars>>

SweepNext ==
    \/ CallCleanup
    \/ \E d \in world.ticks : Tick(d)

SweepSpec == SweepInit /\ [][SweepNext]_vars

\* C23: one run of the sweep leaves exactly the entries whose node id is not
\* negative and whose timestamp is at most 300 seconds old, whatever the
\* kind of the keys (numbers or strings).
C23_SweepResult ==
    [][ncalls' # ncalls =>
          _websocket_data' =
             {e \in _websocket_data :
                 /\ ~(e.node_id.kind = "int" /\ e.node_id.int < 0)
                 /\ now - e.timestamp <= cleanup_threshold * 1000}]_vars

PushStep(c) == ws[c].pc = "ws_write" /\ ws'[c].pc = "ws_send"

\* The input snapshots of all node ids are left as they are.
InputSnapshotsUntouched ==
    \A b \in NodeIds :
        _canvas_data_storage'[input_key(b)] = _canvas_data_storage[input_key(b)]

\* C25: input snapshots and pushed edits never interfere.  A push creates,
\* replaces or removes no input snapshot; the pop of a computation removes
\* no input snapshot and returns none; a poll for b that reports an input
\* returns what a computation for b stored.
C25_NoInterference ==
    [][/\ \A c \in Conns : PushStep(c) => InputSnapshotsUntouched
       /\ \A t \in Threads :
             PopStep(t) => (InputSnapshotsUntouched
                            /\ canvas_data'[t].kind # "input")
       /\ \A b \in NodeIds :
             (PollStep(b) /\ http'.has_input) => http'.data = g_input[b]]_vars

\* The step in which the building of the input snapshot raises.
StoreRaisesStep(t) == pc[t] = "store" /\ pc'[t] = "fin_check"

\* C26: when process_canvas_image raises while it builds the input snapshot,
\* the storage lock is released and the store is as it was: the previous
\* input snapshot and the pending pushed edit are in place, and the failed
\* invocation changes neither on its way out.
C26_FailureConsumesNothing ==
    [][\A t \in Threads :
         /\ StoreRaisesStep(t) =>
               (/\ _storage_lock' = Free
                /\ _canvas_data_storage' = _canvas_data_storage
                /\ g_input' = g_input)
         /\ (/\ pc[t] \in {"fin_check", "fin_release"}
             /\ pc'[t] # pc[t]
             /\ g_call[t].acquired
             /\ ~g_call[t].popped) =>
               _canvas_data_storage' = _canvas_data_storage]_vars

\* C26 witness: an invocation that raised before its pop is about to return;
\* the storage lock is free, the input snapshot of an earlier invocation and
\* a pushed edit that nobody has popped are in the store.
C26_Witness ==
    \E t \in Threads, n \in NodeIds :
        /\ pc[t] = "return"
        /\ g_call[t].acquired
        /\ ~g_call[t].popped
        /\ result[t] = Tuple(None, None)
        /\ _storage_lock = Free
        /\ _canvas_data_storage[input_key(n)] = g_input[n]
        /\ g_input[n] # Absent
        /\ _canvas_data_storage[n].kind = "edit"
        /\ g_push[n].unpopped

\* The fields of the shared cache that hold results.
CacheFields(cache) ==
    <<cache.image, cache.mask, cache.persistent_cache, cache.last_execution_id>>

\* C27: while the processing guard is held, the live image and mask, the
\* persistent copy and last_execution_id change only in a step of an
\* invocation that acquired the guard and is inside the guarded region; no
\* other actor, a constructor included, changes them.
C27_CacheChangesUnderGuard ==
    [][(_processing_lock
        /\ CacheFields(_canvas_cache') # CacheFields(_canvas_cache))
          => \E t \in Threads :
                /\ g_call[t].acquired
                /\ pc[t] \in Guarded
                /\ pc'[t] # pc[t]]_vars

====
